---- MODULE Spec2Model ----
(***************************************************************************)
(* The Lottery contract of contracts/Lottery.sol together with the VRF     *)
(* coordinator it requests random words from.  One action per external     *)
(* call (one transaction); a reverted call leaves the contract's storage   *)
(* and balance as they were.  lastTx records the last call: its arguments, *)
(* the error it reverted with, the events the Lottery emitted, the         *)
(* requests it sent to the coordinator and the ether it paid out.          *)
(*                                                                         *)
(* Assumptions of the model: the only ether the contract receives comes    *)
(* through enterLottery (it declares no other payable entry point); the    *)
(* recipient of the payout either accepts or rejects the transfer and does *)
(* not call back into the Lottery; the coordinator's subscription is valid *)
(* so requestRandomWords returns an id.                                    *)
(***************************************************************************)
EXTENDS Integers, Sequences, FiniteSets, TLC

\* ---- bounds of the model ------------------------------------------------
MaxPlayers == 3
MaxTime == 3
MaxRandom == 3

\* ---- inputs drawn from small sets --------------------------------------
Address == {"a1", "a2"}
ZeroAddress == "0x0"
EntranceFees == {0, 2}
Intervals == {0, 2}
RandomWords == 0..MaxRandom

\* enum LotteryState { OPEN, CALCULATING }
OPEN == 0
CALCULATING == 1

VARIABLES
    i_entranceFee,     \* uint256 immutable, set by the constructor
    i_interval,        \* uint256 immutable, set by the constructor
    s_players,         \* address payable[]
    s_recentWinner,    \* address
    s_lotteryState,    \* LotteryState
    s_lastTimeStamp,   \* uint256
    balance,           \* address(this).balance
    now,               \* block.timestamp
    s_nextRequestId,   \* coordinator: the id the next request gets
    s_requests,        \* coordinator: ids requested and not yet fulfilled
    entered,           \* history: sum of msg.value accepted by enterLottery since the last completed draw
    settled,           \* history: request ids whose callback picked and paid a winner
    reverted,          \* history: request ids whose callback reverted
    lastTx             \* the last call and what it did

vars == <<i_entranceFee, i_interval, s_players, s_recentWinner, s_lotteryState,
          s_lastTimeStamp, balance, now, s_nextRequestId, s_requests, entered, settled, reverted,
          lastTx>>

immutables == <<i_entranceFee, i_interval>>
storage == <<s_players, s_recentWinner, s_lotteryState, s_lastTimeStamp>>
coordinator == <<s_nextRequestId, s_requests>>
history == <<settled, reverted>>

\* The amounts a caller may send with enterLottery: around the entrance fee.
Values == {v \in {i_entranceFee - 1, i_entranceFee, i_entranceFee + 1} : v >= 0}

NoTx ==
    [op |-> "constructor", sender |-> ZeroAddress, value |-> 0,
     error |-> "", errArgs |-> <<>>, events |-> <<>>,
     upkeepNeeded |-> FALSE, requested |-> <<>>,
     requestId |-> 0, randomWord |-> 0,
     paidTo |-> ZeroAddress, paidAmount |-> 0]

\* constructor
Init ==
    /\ i_entranceFee \in EntranceFees
    /\ i_interval \in Intervals
    /\ s_players = <<>>
    /\ s_recentWinner = ZeroAddress
    /\ s_lotteryState = OPEN
    /\ now = 0
    /\ s_lastTimeStamp = now
    /\ balance = 0
    /\ s_nextRequestId = 1
    /\ s_requests = {}
    /\ entered = 0
    /\ settled = {}
    /\ reverted = {}
    /\ lastTx = NoTx

\* evm_increaseTime / a later block: block.timestamp grows.
IncreaseTime ==
    /\ now < MaxTime
    /\ now' = now + 1
    /\ lastTx' = [NoTx EXCEPT !.op = "increaseTime"]
    /\ UNCHANGED <<immutables, storage, balance, coordinator, entered, history>>

\* Mutant of enterLotteryError: the state is not checked.
enterLotteryError_NoStateCheck(value) ==
    IF value < i_entranceFee THEN "Lottery__NotEnoughEther" ELSE ""

\* Mutant of enterLotteryError: the state is checked before the value.
enterLotteryError_StateFirst(value) ==
    IF s_lotteryState # OPEN THEN "Lottery__NotOpen"
    ELSE IF value < i_entranceFee THEN "Lottery__NotEnoughEther"
    ELSE ""

\* Mutant of enterLotteryError: exactly the entrance fee is not enough.
enterLotteryError_FeeExcluded(value) ==
    IF value <= i_entranceFee THEN "Lottery__NotEnoughEther"
    ELSE IF s_lotteryState # OPEN THEN "Lottery__NotOpen"
    ELSE ""

\* Mutant of enterLotteryError: the value is not checked.
enterLotteryError_NoFeeCheck(value) ==
    IF s_lotteryState # OPEN THEN "Lottery__NotOpen" ELSE ""

\* enterLottery: the error the call reverts with, "" when it goes through.
enterLotteryError(value) ==
    IF value < i_entranceFee THEN "Lottery__NotEnoughEther"
    ELSE IF s_lotteryState # OPEN THEN "Lottery__NotOpen"
    ELSE ""

\* function enterLottery() public payable
enterLottery(sender, value) ==
    /\ enterLotteryError(value) = "" => Len(s_players) < MaxPlayers
    /\ IF enterLotteryError(value) # ""
       THEN /\ lastTx' = [NoTx EXCEPT !.op = "enterLottery", !.sender = sender,
                                     !.value = value,
                                     !.error = enterLotteryError(value)]
            /\ UNCHANGED <<s_players, balance, entered>>
       ELSE /\ s_players' = Append(s_players, sender)
            /\ balance' = balance + value
            /\ entered' = entered + value
            /\ lastTx' = [NoTx EXCEPT !.op = "enterLottery", !.sender = sender,
                                     !.value = value,
                                     !.events = << <<"LotteryEnter", sender>> >>]
    /\ UNCHANGED <<immutables, s_recentWinner, s_lotteryState, s_lastTimeStamp,
                   now, coordinator, history>>

\* Mutant of checkUpkeep: an elapsed time equal to the interval is enough.
checkUpkeep_AtInterval ==
    /\ OPEN = s_lotteryState
    /\ (now - s_lastTimeStamp) >= i_interval
    /\ Len(s_players) > 0
    /\ balance > 0

\* Mutant of checkUpkeep: players and balance are not looked at.
checkUpkeep_OnlyTime ==
    /\ OPEN = s_lotteryState
    /\ (now - s_lastTimeStamp) > i_interval

\* function checkUpkeep(bytes memory) public returns (bool upkeepNeeded, bytes memory)
checkUpkeep ==
    LET isOpen == (OPEN = s_lotteryState)
        timePassed == ((now - s_lastTimeStamp) > i_interval)
        hasPlayers == (Len(s_players) > 0)
        hasBalance == balance > 0
    IN  (isOpen /\ timePassed /\ hasPlayers /\ hasBalance)

\* Mutant of CheckUpkeep: the check records the time it ran.
CheckUpkeep_WritesTimeStamp ==
    /\ lastTx' = [NoTx EXCEPT !.op = "checkUpkeep", !.upkeepNeeded = checkUpkeep]
    /\ s_lastTimeStamp' = now
    /\ UNCHANGED <<immutables, s_players, s_recentWinner, s_lotteryState, balance,
                   now, coordinator, entered, history>>

\* A call of checkUpkeep from outside (the keeper's callStatic).
CheckUpkeep ==
    /\ lastTx' = [NoTx EXCEPT !.op = "checkUpkeep", !.upkeepNeeded = checkUpkeep]
    /\ UNCHANGED <<immutables, storage, balance, now, coordinator, entered, history>>

\* Mutant of upkeepNotNeededArgs: the first two values are swapped.
upkeepNotNeededArgs_Swapped == <<Len(s_players), balance, s_lotteryState>>

\* revert Lottery__UpkeepNotNeeded(address(this).balance, s_players.length,
\*                                 uint256(s_lotteryState))
upkeepNotNeededArgs == <<balance, Len(s_players), s_lotteryState>>

\* Mutant of performUpkeep: the request is sent but the state stays OPEN.
performUpkeep_StaysOpen ==
    /\ IF ~checkUpkeep
       THEN /\ lastTx' = [NoTx EXCEPT !.op = "performUpkeep",
                                     !.error = "Lottery__UpkeepNotNeeded",
                                     !.errArgs = <<balance, Len(s_players), s_lotteryState>>]
            /\ UNCHANGED coordinator
       ELSE /\ s_requests' = s_requests \cup {s_nextRequestId}
            /\ s_nextRequestId' = s_nextRequestId + 1
            /\ lastTx' = [NoTx EXCEPT !.op = "performUpkeep",
                                     !.requested = <<s_nextRequestId>>,
                                     !.events = << <<"RequestLotteryWinner", s_nextRequestId>> >>]
    /\ UNCHANGED <<immutables, storage, balance, now, entered, history>>

\* function performUpkeep(bytes calldata) external
performUpkeep ==
    /\ IF ~checkUpkeep
       THEN /\ lastTx' = [NoTx EXCEPT !.op = "performUpkeep",
                                     !.error = "Lottery__UpkeepNotNeeded",
                                     !.errArgs = upkeepNotNeededArgs]
            /\ UNCHANGED <<s_lotteryState, coordinator>>
       ELSE /\ s_lotteryState' = CALCULATING
            \* i_vrfCoordinator.requestRandomWords(...) returns the coordinator's next id
            /\ s_requests' = s_requests \cup {s_nextRequestId}
            /\ s_nextRequestId' = s_nextRequestId + 1
            /\ lastTx' = [NoTx EXCEPT !.op = "performUpkeep",
                                     !.requested = <<s_nextRequestId>>,
                                     !.events = << <<"RequestLotteryWinner", s_nextRequestId>> >>]
    /\ UNCHANGED <<immutables, s_players, s_recentWinner, s_lastTimeStamp,
                   balance, now, entered, history>>

\* Mutant of indexOfWinner: the index is one off.
indexOfWinner_OffByOne(randomWord) == (randomWord + 1) % Len(s_players)

\* uint256 indexOfWinner = randomWords[0] % s_players.length
indexOfWinner(randomWord) == randomWord % Len(s_players)

\* s_players[index] of the contract: arrays start at 0, sequences at 1.
getPlayer(index) == s_players[index + 1]

\* Mutant of payoutValue: the winner is sent one entrance fee per player, not
\* the whole balance.
payoutValue_FeePerPlayer == i_entranceFee * Len(s_players)

\* {value: address(this).balance}
payoutValue == balance

\* Mutant of callbackReverts: the failure is reported but the writes made
\* before the transfer are kept.
callbackReverts_KeepsWrites(requestId, randomWord, error) ==
    /\ lastTx' = [NoTx EXCEPT !.op = "fulfillRandomWords", !.requestId = requestId,
                             !.randomWord = randomWord, !.error = error]
    /\ s_recentWinner' = IF Len(s_players) = 0 THEN s_recentWinner
                         ELSE s_players[(randomWord % Len(s_players)) + 1]
    /\ s_lotteryState' = OPEN
    /\ s_players' = <<>>
    /\ s_lastTimeStamp' = now
    /\ reverted' = reverted \cup {requestId}
    /\ UNCHANGED <<balance, entered, settled>>

\* The callback reverts (the modulo panics on an empty array, or
\* revert Lottery__TransferFailed()): nothing it wrote is kept.
callbackReverts(requestId, randomWord, error) ==
    /\ lastTx' = [NoTx EXCEPT !.op = "fulfillRandomWords", !.requestId = requestId,
                             !.randomWord = randomWord, !.error = error]
    /\ reverted' = reverted \cup {requestId}
    /\ UNCHANGED <<storage, balance, entered, settled>>

\* Mutant of winnerPicked: the time of the draw is not recorded.
winnerPicked_StaleTimeStamp(requestId, randomWord) ==
    LET recentWinner == s_players[(randomWord % Len(s_players)) + 1] IN
    /\ s_recentWinner' = recentWinner
    /\ s_lotteryState' = OPEN
    /\ s_players' = <<>>
    /\ s_lastTimeStamp' = s_lastTimeStamp
    /\ balance' = 0
    /\ entered' = 0
    /\ settled' = settled \cup {requestId}
    /\ UNCHANGED reverted
    /\ lastTx' = [NoTx EXCEPT !.op = "fulfillRandomWords", !.requestId = requestId,
                             !.randomWord = randomWord,
                             !.paidTo = recentWinner, !.paidAmount = balance,
                             !.events = << <<"WinnerPicked", recentWinner>> >>]

\* Mutant of winnerPicked: the players array is not cleared.
winnerPicked_KeepsPlayers(requestId, randomWord) ==
    LET recentWinner == s_players[(randomWord % Len(s_players)) + 1] IN
    /\ s_recentWinner' = recentWinner
    /\ s_lotteryState' = OPEN
    /\ s_players' = s_players
    /\ s_lastTimeStamp' = now
    /\ balance' = 0
    /\ entered' = 0
    /\ settled' = settled \cup {requestId}
    /\ UNCHANGED reverted
    /\ lastTx' = [NoTx EXCEPT !.op = "fulfillRandomWords", !.requestId = requestId,
                             !.randomWord = randomWord,
                             !.paidTo = recentWinner, !.paidAmount = balance,
                             !.events = << <<"WinnerPicked", recentWinner>> >>]

\* The callback goes through: the winner is recorded, the lottery is reset and
\* the whole balance is sent to the winner.
winnerPicked(requestId, randomWord) ==
    LET recentWinner == getPlayer(indexOfWinner(randomWord)) IN
    /\ s_recentWinner' = recentWinner
    /\ s_lotteryState' = OPEN
    /\ s_players' = <<>>
    /\ s_lastTimeStamp' = now
    /\ balance' = balance - payoutValue
    /\ entered' = 0
    /\ settled' = settled \cup {requestId}
    /\ UNCHANGED reverted
    /\ lastTx' = [NoTx EXCEPT !.op = "fulfillRandomWords", !.requestId = requestId,
                             !.randomWord = randomWord,
                             !.paidTo = recentWinner, !.paidAmount = payoutValue,
                             !.events = << <<"WinnerPicked", recentWinner>> >>]

\* function fulfillRandomWords(uint256, uint256[] memory randomWords) internal,
\* called back by the coordinator for its pending request requestId; success is
\* what recentWinner.call{value: address(this).balance}("") returns.  The
\* coordinator drops the request whether or not the callback reverted.
fulfillRandomWords(requestId, randomWord, success) ==
    /\ requestId \in s_requests
    /\ s_requests' = s_requests \ {requestId}
    /\ IF Len(s_players) = 0
       THEN callbackReverts(requestId, randomWord, "Panic")
       ELSE IF ~success
       THEN callbackReverts(requestId, randomWord, "Lottery__TransferFailed")
       ELSE winnerPicked(requestId, randomWord)
    /\ UNCHANGED <<immutables, now, s_nextRequestId>>

\* Mutant of fulfillNonexistent: an id with no pending request is not refused
\* and the callback picks and pays a winner again.
fulfillNonexistent_CallsBack(requestId) ==
    /\ requestId \notin s_requests
    /\ IF Len(s_players) = 0
       THEN /\ lastTx' = [NoTx EXCEPT !.op = "fulfillRandomWords",
                                     !.requestId = requestId, !.error = "Panic"]
            /\ UNCHANGED <<storage, balance, entered>>
       ELSE /\ s_recentWinner' = s_players[1]
            /\ s_lotteryState' = OPEN
            /\ s_players' = <<>>
            /\ s_lastTimeStamp' = now
            /\ balance' = 0
            /\ entered' = 0
            /\ lastTx' = [NoTx EXCEPT !.op = "fulfillRandomWords",
                                     !.requestId = requestId,
                                     !.paidTo = s_players[1], !.paidAmount = balance,
                                     !.events = << <<"WinnerPicked", s_players[1]>> >>]
    /\ UNCHANGED <<immutables, now, coordinator, history>>

\* vrfCoordinatorV2Mock.fulfillRandomWords(requestId, lottery.address) for an id
\* with no pending request: the coordinator reverts and the Lottery is not called.
fulfillNonexistent(requestId) ==
    /\ requestId \notin s_requests
    /\ lastTx' = [NoTx EXCEPT !.op = "fulfillRandomWords", !.requestId = requestId,
                             !.error = "nonexistent request"]
    /\ UNCHANGED <<immutables, storage, balance, now, coordinator, entered, history>>

Next ==
    \/ IncreaseTime
    \/ \E sender \in Address : \E value \in Values : enterLottery(sender, value)
    \/ CheckUpkeep
    \/ performUpkeep
    \/ \E requestId \in s_requests : \E randomWord \in RandomWords :
         \E success \in BOOLEAN : fulfillRandomWords(requestId, randomWord, success)
    \/ \E requestId \in 0..s_nextRequestId : fulfillNonexistent(requestId)

Spec == Init /\ [][Next]_vars

\* The coordinator delivers a pending request.
Deliver ==
    \E requestId \in s_requests : \E randomWord \in RandomWords :
      \E success \in BOOLEAN : fulfillRandomWords(requestId, randomWord, success)

\* The coordinator eventually delivers every request it accepted.
FairSpec == Spec /\ WF_vars(Deliver)

\* ---- what the last call was --------------------------------------------
\* These read lastTx in the state after the call; primed, they tell which
\* call a step is.
FulfilledOk == lastTx.op = "fulfillRandomWords" /\ lastTx.error = ""
PayoutFailed == lastTx.op = "fulfillRandomWords" /\ lastTx.error = "Lottery__TransferFailed"

\* C1: for a non-empty players list and any random value delivered for a
\* pending request, the winner recorded and paid by a fulfilment that goes
\* through is players[randomValue mod players.length], players being the list
\* at the time of the fulfilment.
C1_WinnerIsPlayerAtIndex ==
    [][FulfilledOk' =>
         /\ Len(s_players) > 0
         /\ lastTx'.requestId \in s_requests
         /\ s_recentWinner' = s_players[(lastTx'.randomWord % Len(s_players)) + 1]
         /\ lastTx'.paidTo = s_players[(lastTx'.randomWord % Len(s_players)) + 1]]_vars

\* A fulfilment went through whose random value is not below the number of
\* players, so the modulo wrapped, and the player it picked is the second one.
C1_Witness ==
    /\ FulfilledOk
    /\ lastTx.randomWord = MaxRandom
    /\ lastTx.paidTo = "a2"
    /\ s_recentWinner = "a2"
    /\ lastTx.paidAmount > i_entranceFee

\* C2: after every fulfilment that goes through, players is empty, the state
\* is OPEN, the balance is 0, the last time stamp is the time of the
\* fulfilment and the recent winner is the selected winner.
C2_ResetAfterDraw ==
    [][FulfilledOk' =>
         /\ s_players' = <<>>
         /\ s_lotteryState' = OPEN
         /\ balance' = 0
         /\ s_lastTimeStamp' = now'
         /\ s_recentWinner' = s_players[(lastTx'.randomWord % Len(s_players)) + 1]
         /\ lastTx'.events = << <<"WinnerPicked", s_recentWinner'>> >>]_vars

\* A draw completed at a time later than the previous time stamp could be, and
\* the lottery is reset.
C2_Witness ==
    /\ FulfilledOk
    /\ now > i_interval
    /\ s_lastTimeStamp = now
    /\ s_players = <<>>
    /\ s_lotteryState = OPEN
    /\ balance = 0
    /\ s_recentWinner \in Address

\* C3: the amount paid to the winner equals the sum of the contributions
\* accepted by enterLottery since the previous completed draw, whatever the
\* single contributions were, and nothing stays in the contract.
C3_WholePoolPaid ==
    [][FulfilledOk' =>
         /\ lastTx'.paidAmount = entered
         /\ lastTx'.paidAmount = balance
         /\ balance' = 0]_vars

\* The running sum equals the balance in every state: the pool is what was
\* entered since the last completed draw.
C3_PoolIsSumOfEntries == balance = entered

\* A second draw paid a pool in which somebody paid more than the fee.
C3_Witness ==
    /\ FulfilledOk
    /\ lastTx.requestId = 2
    /\ i_entranceFee > 0
    /\ lastTx.paidAmount > i_entranceFee
    /\ lastTx.paidAmount % i_entranceFee # 0

\* C4: when the payout fails, the fulfilment reverts with
\* Lottery__TransferFailed and is rolled back: the state is still CALCULATING,
\* players, recent winner, balance and last time stamp are as before, and no
\* WinnerPicked event is emitted.
C4_PayoutFailureRollsBack ==
    [][PayoutFailed' =>
         /\ s_lotteryState = CALCULATING
         /\ s_lotteryState' = CALCULATING
         /\ s_players' = s_players
         /\ Len(s_players) > 0
         /\ s_recentWinner' = s_recentWinner
         /\ balance' = balance
         /\ s_lastTimeStamp' = s_lastTimeStamp
         /\ lastTx'.events = <<>>
         /\ lastTx'.paidAmount = 0]_vars

\* The payout of a second draw failed: the winner of the first is still the
\* recent winner and the players and the pool are still there.
C4_Witness ==
    /\ PayoutFailed
    /\ s_lotteryState = CALCULATING
    /\ s_recentWinner \in Address
    /\ Len(s_players) >= 2
    /\ balance > 0

\* The eligibility rule as the specification states it.
Eligible ==
    /\ s_lotteryState = OPEN
    /\ now - s_lastTimeStamp > i_interval
    /\ s_players # <<>>
    /\ balance > 0

\* C5: checkUpkeep returns true if and only if the state is OPEN, more than
\* interval has passed since the last time stamp (exactly interval is not
\* enough), there is a player and the balance is positive.
C5_CheckUpkeepIffAllFour ==
    lastTx.op = "checkUpkeep" =>
        /\ lastTx.upkeepNeeded <=> Eligible
        /\ s_lotteryState # OPEN => ~lastTx.upkeepNeeded
        /\ now - s_lastTimeStamp <= i_interval => ~lastTx.upkeepNeeded
        /\ Len(s_players) = 0 => ~lastTx.upkeepNeeded
        /\ balance = 0 => ~lastTx.upkeepNeeded

\* checkUpkeep answered false with players, a balance and the state OPEN,
\* exactly interval after the last time stamp.
C5_Witness ==
    /\ lastTx.op = "checkUpkeep"
    /\ ~lastTx.upkeepNeeded
    /\ s_lotteryState = OPEN
    /\ Len(s_players) > 0
    /\ balance > 0
    /\ i_interval > 0
    /\ now - s_lastTimeStamp = i_interval

\* checkUpkeep answered true.
C5_WitnessTrue ==
    /\ lastTx.op = "checkUpkeep"
    /\ lastTx.upkeepNeeded
\* C6: whenever checkUpkeep is false, performUpkeep reverts with
\* Lottery__UpkeepNotNeeded carrying the balance, the number of players and
\* the state, sends no request to the coordinator and changes nothing.
C6_UpkeepNotNeededReverts ==
    [][(lastTx'.op = "performUpkeep" /\ ~Eligible) =>
         /\ lastTx'.error = "Lottery__UpkeepNotNeeded"
         /\ lastTx'.errArgs = <<balance, Len(s_players), s_lotteryState>>
         /\ lastTx'.requested = <<>>
         /\ lastTx'.events = <<>>
         /\ UNCHANGED <<s_lotteryState, s_players, balance, s_lastTimeStamp,
                        s_recentWinner, s_requests, s_nextRequestId>>]_vars

\* performUpkeep reverted while a draw was pending, with more in the pool
\* than there are players, and reported the state CALCULATING.
C6_Witness ==
    /\ lastTx.op = "performUpkeep"
    /\ lastTx.error = "Lottery__UpkeepNotNeeded"
    /\ s_lotteryState = CALCULATING
    /\ balance > Len(s_players)
    /\ lastTx.errArgs = <<balance, Len(s_players), CALCULATING>>

\* C7: whenever checkUpkeep is true, performUpkeep goes through: the state
\* moves from OPEN to CALCULATING, exactly one request is sent to the
\* coordinator, the id the coordinator returned is the pending request, one
\* RequestLotteryWinner event carries that id, and players, balance, last time
\* stamp and recent winner are unchanged.
C7_PerformUpkeepRequestsDraw ==
    [][(lastTx'.op = "performUpkeep" /\ Eligible) =>
         /\ lastTx'.error = ""
         /\ s_lotteryState = OPEN
         /\ s_lotteryState' = CALCULATING
         /\ Len(lastTx'.requested) = 1
         /\ lastTx'.requested[1] \notin s_requests
         /\ s_requests' = {lastTx'.requested[1]}
         /\ lastTx'.events = << <<"RequestLotteryWinner", lastTx'.requested[1]>> >>
         /\ UNCHANGED <<s_players, balance, s_lastTimeStamp, s_recentWinner>>]_vars

\* performUpkeep went through for a second draw.
C7_Witness ==
    /\ lastTx.op = "performUpkeep"
    /\ lastTx.error = ""
    /\ lastTx.requested = <<2>>
    /\ s_requests = {2}
    /\ s_lotteryState = CALCULATING
    /\ s_recentWinner \in Address

\* C8 as stated: whenever the state is CALCULATING, enterLottery reverts with
\* Lottery__NotOpen for every sender and every value, and leaves players and
\* balance unchanged.
C8_AnyValueNotOpen ==
    [][(lastTx'.op = "enterLottery" /\ s_lotteryState = CALCULATING) =>
         /\ lastTx'.error = "Lottery__NotOpen"
         /\ UNCHANGED <<s_players, balance>>]_vars

\* C8 amended: whenever the state is CALCULATING, enterLottery with a value of
\* at least the entrance fee reverts with Lottery__NotOpen, for every sender,
\* and leaves players and balance unchanged; so does such a call right after
\* a performUpkeep that went through.
C8_SufficientValueNotOpen ==
    [][(lastTx'.op = "enterLottery" /\ lastTx'.value >= i_entranceFee) =>
         /\ s_lotteryState = CALCULATING =>
              /\ lastTx'.error = "Lottery__NotOpen"
              /\ lastTx'.events = <<>>
              /\ UNCHANGED <<s_players, balance, s_lotteryState>>
         /\ (lastTx.op = "performUpkeep" /\ lastTx.error = "") =>
              lastTx'.error = "Lottery__NotOpen"]_vars

\* An enterLottery with more than the fee reverted with Lottery__NotOpen
\* while a request was pending.
C8_Witness ==
    /\ lastTx.op = "enterLottery"
    /\ lastTx.error = "Lottery__NotOpen"
    /\ lastTx.value > i_entranceFee
    /\ s_lotteryState = CALCULATING
    /\ s_requests # {}

\* C9: for every value below the entrance fee, in any state, enterLottery
\* reverts with Lottery__NotEnoughEther, players and balance are unchanged and
\* no LotteryEnter event is emitted.
C9_BelowFeeReverts ==
    [][(lastTx'.op = "enterLottery" /\ lastTx'.value < i_entranceFee) =>
         /\ lastTx'.error = "Lottery__NotEnoughEther"
         /\ lastTx'.events = <<>>
         /\ UNCHANGED <<s_players, balance>>]_vars

\* An enterLottery below the fee reverted with Lottery__NotEnoughEther while
\* the state was CALCULATING.
C9_Witness ==
    /\ lastTx.op = "enterLottery"
    /\ lastTx.error = "Lottery__NotEnoughEther"
    /\ lastTx.value < i_entranceFee
    /\ s_lotteryState = CALCULATING

\* C10: when the state is OPEN and the value is at least the entrance fee,
\* enterLottery goes through: the sender is appended to players, the balance
\* grows by the value, one LotteryEnter event is emitted, and state, last time
\* stamp and recent winner are unchanged.
C10_EnterAppends ==
    [][(lastTx'.op = "enterLottery" /\ s_lotteryState = OPEN
          /\ lastTx'.value >= i_entranceFee) =>
         /\ lastTx'.error = ""
         /\ s_players' = Append(s_players, lastTx'.sender)
         /\ balance' = balance + lastTx'.value
         /\ lastTx'.events = << <<"LotteryEnter", lastTx'.sender>> >>
         /\ UNCHANGED <<s_lotteryState, s_lastTimeStamp, s_recentWinner>>]_vars

\* A sender that is already the first player entered again with exactly the
\* entrance fee and got the last slot.
C10_Witness ==
    /\ lastTx.op = "enterLottery"
    /\ lastTx.error = ""
    /\ lastTx.value = i_entranceFee
    /\ i_entranceFee > 0
    /\ Len(s_players) = MaxPlayers
    /\ s_players[1] = lastTx.sender
    /\ s_players[Len(s_players)] = lastTx.sender
    /\ s_players[2] # lastTx.sender
\* A performUpkeep that went through.
RequestedOk == lastTx.op = "performUpkeep" /\ lastTx.error = ""

\* C11 as stated: in every reachable state the state is CALCULATING if and
\* only if a request was sent to the coordinator and the coordinator has not
\* yet delivered it, also after a fulfilment whose payout failed.
C11_CalculatingIffPending ==
    s_lotteryState = CALCULATING <=> s_requests # {}

\* C11 amended: a request the coordinator has not yet delivered implies
\* CALCULATING, and the state is CALCULATING if and only if a request is
\* pending or the callback of a delivered request reverted; after a payout
\* that failed the state is CALCULATING with no request pending.
C11_CalculatingIffUnsettled ==
    /\ s_requests # {} => s_lotteryState = CALCULATING
    /\ s_lotteryState = CALCULATING <=> (s_requests # {} \/ reverted # {})
    /\ PayoutFailed => (s_lotteryState = CALCULATING /\ s_requests = {})

\* The payout of a delivered request failed: CALCULATING, nothing pending.
C11_Witness ==
    /\ s_lotteryState = CALCULATING
    /\ s_requests = {}
    /\ reverted # {}
    /\ lastTx.op = "performUpkeep"
    /\ lastTx.error = "Lottery__UpkeepNotNeeded"

\* C12: a request id settles once: after a fulfilment with id r picked and
\* paid a winner, a later fulfilment carrying r picks no winner, pays nothing
\* and changes no state, also after new players entered.
C12_SettledIdSettlesOnce ==
    [][(lastTx'.op = "fulfillRandomWords" /\ lastTx'.requestId \in settled) =>
         /\ lastTx'.error = "nonexistent request"
         /\ lastTx'.events = <<>>
         /\ lastTx'.paidAmount = 0
         /\ UNCHANGED <<storage, balance, coordinator, settled>>]_vars

\* The id of a completed draw was delivered again after a new player had
\* entered, and was refused.
C12_Witness ==
    /\ lastTx.op = "fulfillRandomWords"
    /\ lastTx.requestId \in settled
    /\ lastTx.error = "nonexistent request"
    /\ s_lotteryState = OPEN
    /\ Len(s_players) > 0
    /\ balance > 0
    /\ s_recentWinner \in Address

\* C13: a fulfilment whose id matches no pending request (an id never issued,
\* or any id while nothing is pending, as before the first performUpkeep) has
\* no effect: players and state are unchanged, no winner is recorded and
\* nothing is paid.
C13_NonMatchingIdNoEffect ==
    [][(lastTx'.op = "fulfillRandomWords" /\ lastTx'.requestId \notin s_requests) =>
         /\ lastTx'.error = "nonexistent request"
         /\ lastTx'.events = <<>>
         /\ lastTx'.paidAmount = 0
         /\ lastTx'.paidTo = ZeroAddress
         /\ UNCHANGED <<s_players, s_lotteryState, s_recentWinner, s_lastTimeStamp,
                        balance, s_requests>>]_vars

\* Before the first performUpkeep, with a player and a pool, a fulfilment for
\* an id that was never issued was refused.
C13_Witness ==
    /\ lastTx.op = "fulfillRandomWords"
    /\ lastTx.error = "nonexistent request"
    /\ s_nextRequestId = 1
    /\ lastTx.requestId = 1
    /\ Len(s_players) > 0
    /\ balance > 0
    /\ s_recentWinner = ZeroAddress

\* C14: every request is sent to the coordinator in a state where players is
\* non-empty.
C14_RequestOnlyWithPlayers ==
    [][(lastTx'.requested # <<>> \/ s_nextRequestId' # s_nextRequestId
          \/ ~(s_requests' \subseteq s_requests)) =>
         /\ lastTx'.op = "performUpkeep"
         /\ Len(s_players) > 0
         /\ s_players' = s_players]_vars

\* A second request was sent, with two players.
C14_Witness ==
    /\ RequestedOk
    /\ lastTx.requested = <<2>>
    /\ Len(s_players) = 2

\* C15: OPEN is left only by a performUpkeep that goes through and
\* CALCULATING only by a fulfilment that goes through; enterLottery never
\* changes the state; while CALCULATING every enterLottery and every
\* performUpkeep reverts, and every step that is not a fulfilment that goes
\* through leaves state, players, balance, last time stamp and recent winner
\* as they are.
C15_OnlyWaysOutOfEachState ==
    [][/\ (s_lotteryState = OPEN /\ s_lotteryState' # OPEN) =>
            (RequestedOk' /\ s_lotteryState' = CALCULATING)
       /\ (s_lotteryState = CALCULATING /\ s_lotteryState' # CALCULATING) =>
            (FulfilledOk' /\ s_lotteryState' = OPEN)
       /\ lastTx'.op = "enterLottery" => s_lotteryState' = s_lotteryState
       /\ (s_lotteryState = CALCULATING
             /\ lastTx'.op \in {"enterLottery", "performUpkeep"}) =>
            lastTx'.error # ""
       /\ (s_lotteryState = CALCULATING /\ ~FulfilledOk') =>
            UNCHANGED <<s_lotteryState, s_players, balance, s_lastTimeStamp,
                        s_recentWinner>>]_vars

\* While a request was pending, time had passed and a performUpkeep
\* reverted.
C15_Witness ==
    /\ s_lotteryState = CALCULATING
    /\ s_requests # {}
    /\ now = MaxTime
    /\ now - s_lastTimeStamp > i_interval
    /\ lastTx.op = "performUpkeep"
    /\ lastTx.error = "Lottery__UpkeepNotNeeded"
\* C16: if the coordinator eventually delivers every request and the payout
\* to the selected winner succeeds (no callback reverts), every CALCULATING
\* state is followed by a state in which the lottery is OPEN with no players.
C16_CalculatingLeadsToOpen ==
    (s_lotteryState = CALCULATING) ~>
        (reverted # {} \/ (s_lotteryState = OPEN /\ s_players = <<>>))

\* A second draw completed, no payout having failed.
C16_Witness ==
    /\ FulfilledOk
    /\ settled = {1, 2}
    /\ reverted = {}
    /\ s_lotteryState = OPEN
    /\ s_players = <<>>
\* C17: checkUpkeep is read-only: in any state it leaves state, players,
\* balance, last time stamp and recent winner (and the coordinator and the
\* time) as they are, so whatever a later call does is what it would have
\* done without the check.
C17_CheckUpkeepReadOnly ==
    [][lastTx'.op = "checkUpkeep" =>
         UNCHANGED <<s_lotteryState, s_players, balance, s_lastTimeStamp,
                     s_recentWinner, s_requests, s_nextRequestId, now,
                     i_entranceFee, i_interval>>]_vars

\* checkUpkeep answered true while the draw it allows had not been requested:
\* the state is still OPEN and the players and the pool are still there.
C17_Witness ==
    /\ lastTx.op = "checkUpkeep"
    /\ lastTx.upkeepNeeded
    /\ s_lotteryState = OPEN
    /\ Len(s_players) = 2
    /\ balance > 0
    /\ s_requests = {}

\* C18: the last time stamp is changed only by a fulfilment that goes
\* through, and every such fulfilment makes it strictly greater than it was
\* when the draw was requested, for every interval >= 0.
C18_TimeStampOnlyGrowsAtDraw ==
    [][/\ s_lastTimeStamp' # s_lastTimeStamp => FulfilledOk'
       /\ FulfilledOk' => s_lastTimeStamp' > s_lastTimeStamp]_vars

\* With interval 0 a second draw completed, later than the first.
C18_Witness ==
    /\ FulfilledOk
    /\ i_interval = 0
    /\ lastTx.requestId = 2
    /\ s_lastTimeStamp = now
    /\ s_lastTimeStamp >= 2

\* C19: while a request is pending, players is non-empty and does not change,
\* so the winner is one of the players present when the draw was requested and
\* the modulo of the callback never divides by zero.
C19_PlayersFrozenWhilePending ==
    [][/\ s_requests # {} => Len(s_players) > 0
       /\ (s_requests # {} /\ ~FulfilledOk') => s_players' = s_players
       /\ RequestedOk' => (s_players' = s_players /\ Len(s_players) > 0)
       /\ lastTx'.error # "Panic"
       /\ FulfilledOk' => \E i \in 1..Len(s_players) : s_recentWinner' = s_players[i]]_vars

\* The first draw completed and paid the third of three players.
C19_Witness ==
    /\ FulfilledOk
    /\ lastTx.requestId = 1
    /\ lastTx.randomWord = 2
    /\ lastTx.paidAmount >= MaxPlayers * i_entranceFee
    /\ i_entranceFee > 0
    /\ s_recentWinner = lastTx.paidTo

\* C20: in every reachable state the balance is at least entranceFee times
\* the number of players; so with entranceFee > 0 a non-empty players means a
\* positive balance, and players with an empty pool occur only with
\* entranceFee = 0, where checkUpkeep is false and no draw is requested.
C20_PoolCoversFees ==
    /\ balance >= i_entranceFee * Len(s_players)
    /\ (i_entranceFee > 0 /\ Len(s_players) > 0) => balance > 0
    /\ (Len(s_players) > 0 /\ balance = 0) =>
         /\ i_entranceFee = 0
         /\ s_lotteryState = OPEN
         /\ s_requests = {}
         /\ ~RequestedOk
         /\ lastTx.op = "checkUpkeep" => ~lastTx.upkeepNeeded
         /\ lastTx.op = "performUpkeep" => lastTx.error = "Lottery__UpkeepNotNeeded"

\* With entranceFee 0, players that paid nothing, the interval long over:
\* performUpkeep reverted.
C20_Witness ==
    /\ i_entranceFee = 0
    /\ Len(s_players) = MaxPlayers
    /\ balance = 0
    /\ now - s_lastTimeStamp > i_interval
    /\ lastTx.op = "performUpkeep"
    /\ lastTx.error = "Lottery__UpkeepNotNeeded"
    /\ lastTx.errArgs = <<0, MaxPlayers, OPEN>>
\* C21: at most one request is outstanding at any time: when a performUpkeep
\* goes through, every request sent before has been settled by a fulfilment
\* that went through, and a performUpkeep while a request is pending reverts
\* with Lottery__UpkeepNotNeeded and sends no request.
C21_AtMostOneRequestOutstanding ==
    [][/\ Cardinality(s_requests') <= 1
       /\ RequestedOk' =>
            /\ s_requests = {}
            /\ reverted = {}
            /\ settled = 1..(s_nextRequestId - 1)
            /\ s_requests' = {s_nextRequestId}
       /\ (lastTx'.op = "performUpkeep" /\ s_requests # {}) =>
            /\ lastTx'.error = "Lottery__UpkeepNotNeeded"
            /\ lastTx'.requested = <<>>
            /\ UNCHANGED <<s_requests, s_nextRequestId>>]_vars

\* The first draw is settled, the second request is pending, the interval is
\* over again, and a further performUpkeep reverted reporting CALCULATING.
C21_Witness ==
    /\ settled = {1}
    /\ s_requests = {2}
    /\ now - s_lastTimeStamp > i_interval
    /\ lastTx.op = "performUpkeep"
    /\ lastTx.error = "Lottery__UpkeepNotNeeded"
    /\ lastTx.errArgs[3] = CALCULATING
====
